---- MODULE Spec2Model ----
(***************************************************************************)
(* A model of src/mhd/interface.py: the piecewise-linear reconstruction    *)
(* (states), the HLLE Riemann solver (riemann_adiabatic, calc_evals,       *)
(* consFlux), the corner EMF (emf) and the magnetic source term (sources). *)
(*                                                                         *)
(* Arithmetic.  The code computes in IEEE doubles; the model computes in   *)
(* exact rational arithmetic.  A number is a pair <<n, d>> in lowest terms  *)
(* with d > 0, and <<0, 0>> (NonFinite) stands for the NaN/Inf results of  *)
(* a division by zero.  Rounding in the last place is therefore not        *)
(* modelled: equalities are those of real arithmetic.                      *)
(*                                                                         *)
(* Arrays.  A field of shape (qx, qy, nvar) is a function from the index   *)
(* pairs <<i, j>>, 0 <= i < qx, 0 <= j < qy (the code's 0-based indices),  *)
(* to functions from the slots 0..nvar-1 to numbers.                       *)
(*                                                                         *)
(* Specifications.  Each routine has its own specification over small      *)
(* input fields (SpecStates, SpecSources, SpecEmf, SpecFlux, SpecRiemann); *)
(* SpecFootprint follows the indices the four array routines touch.        *)
(***************************************************************************)
EXTENDS Integers, Sequences, FiniteSets, TLC

VARIABLES
    pc,       \* which routine has run: "ready" before the call, else its name
    idir,     \* the sweep direction of the call (1 = x, 2 = y), 0 before it
    ng,       \* ghost width passed to the routine
    qx, qy,   \* array shape (first two axes)
    nspec,    \* number of species carried after the six MHD slots
    qv,       \* states: primitive input field
    q_l, q_r, \* states: left and right interface states (the return value)
    dq,       \* states: the limited slope array (a local of states)
    dx,       \* sources, emf: the cell spacing
    U,        \* sources, emf: cell-centered conservative state
    Ux,       \* sources: conservative state on the idir-interfaces
    S,        \* sources: the source array (the return value)
    dy,       \* emf: the cell spacing in y
    Fx, Fy,   \* emf: the interface fluxes of the x- and the y-sweep
    use_ref,  \* emf: take the reference EMF from Eref instead of U
    Eref,     \* emf: the reference EMF passed in, shape (1, 1) or (qx, qy)
    Ec,       \* emf: the corner EMF (the return value)
    sel,      \* emf: the four upwind-selected slopes of each corner (locals)
    gamma,    \* riemann_adiabatic, consFlux: the adiabatic index
    U_l, U_r, \* riemann_adiabatic: left and right conservative interface states
    waves,    \* riemann_adiabatic: the square roots taken at an interface
    bp, bm,   \* riemann_adiabatic: the two HLLE speed bounds (locals)
    f_l, f_r, \* riemann_adiabatic: consFlux of the left and right states (locals)
    F,        \* riemann_adiabatic: the interface flux (the return value)
    U_state,  \* consFlux: one conservative state
    Fc,       \* consFlux: its flux (the return value)
    reads,    \* footprint: the elements <<array, <<i, j>>>> the last routine read
    writes    \* footprint: the elements the routines of the sweep wrote

grid == <<ng, qx, qy, nspec>>
statesVars == <<qv, q_l, q_r, dq>>
sourcesVars == <<dx, U, Ux, S>>
emfVars == <<dy, Fx, Fy, use_ref, Eref, Ec, sel>>
riemannVars == <<gamma, U_l, U_r, waves, bp, bm, f_l, f_r, F>>
fluxVars == <<U_state, Fc>>
footprint == <<reads, writes>>
vars == <<pc, idir, grid, statesVars, sourcesVars, emfVars, riemannVars, fluxVars,
          footprint>>

---------------------------------------------------------------------------
(* Bounds of the model *)

MaxNg == 4      \* ghost widths 4..MaxNg in the functional specifications
MaxN == 2       \* interior sizes: nx + ny = MaxN
MaxVal == 1     \* cell values of the reconstruction input in -MaxVal..MaxVal
MaxSpec == 1    \* species counts 0..MaxSpec

---------------------------------------------------------------------------
(* Exact rational arithmetic standing for the code's float arithmetic *)

NonFinite == <<0, 0>>

AbsI(n) == IF n < 0 THEN -n ELSE n

RECURSIVE GCD(_, _)
GCD(a, b) == IF b = 0 THEN a ELSE GCD(b, a % b)

Norm(n, d) ==
    IF d = 0 THEN NonFinite
    ELSE LET g == GCD(AbsI(n), AbsI(d))
             s == IF d < 0 THEN -1 ELSE 1
         IN  <<s * (n \div g), s * (d \div g)>>

R(n) == <<n, 1>>
Zero == R(0)
One == R(1)
Two == R(2)
Half == <<1, 2>>
Quarter == <<1, 4>>
Eighth == <<1, 8>>

IsFin(x) == x[2] # 0

RAdd(x, y) ==
    IF ~IsFin(x) \/ ~IsFin(y) THEN NonFinite
    ELSE LET g == GCD(x[2], y[2])
         IN  Norm(x[1] * (y[2] \div g) + y[1] * (x[2] \div g), x[2] * (y[2] \div g))

RNeg(x) == <<-x[1], x[2]>>

RSub(x, y) == RAdd(x, RNeg(y))

RMul(x, y) ==
    IF ~IsFin(x) \/ ~IsFin(y) THEN NonFinite
    ELSE LET g1 == GCD(AbsI(x[1]), y[2])
             g2 == GCD(AbsI(y[1]), x[2])
         IN  Norm((x[1] \div g1) * (y[1] \div g2), (x[2] \div g2) * (y[2] \div g1))

\* x / y; a zero divisor gives the non-finite result
RDiv(x, y) ==
    IF ~IsFin(x) \/ ~IsFin(y) \/ y[1] = 0 THEN NonFinite
    ELSE RMul(x, IF y[1] < 0 THEN <<-y[2], -y[1]>> ELSE <<y[2], y[1]>>)

RSq(x) == RMul(x, x)

\* comparisons: false when an operand is not finite, as for a NaN
RLt(x, y) == IsFin(x) /\ IsFin(y) /\ x[1] * y[2] < y[1] * x[2]
RLe(x, y) == IsFin(x) /\ IsFin(y) /\ x[1] * y[2] <= y[1] * x[2]

\* np.abs, np.sign, np.minimum
RAbs(x) == <<AbsI(x[1]), x[2]>>
RSign(x) == IF ~IsFin(x) THEN NonFinite
            ELSE IF x[1] > 0 THEN One ELSE IF x[1] < 0 THEN R(-1) ELSE Zero
NpMinimum(x, y) == IF ~IsFin(x) \/ ~IsFin(y) THEN NonFinite
                   ELSE IF RLe(x, y) THEN x ELSE y

\* Python's built-in max(a, b) and min(a, b): b only if it compares beyond a
PyMax(a, b) == IF RLt(a, b) THEN b ELSE a
PyMin(a, b) == IF RLt(b, a) THEN b ELSE a

---------------------------------------------------------------------------
(* Grid geometry shared by every routine *)

\* Python's range(a, b)
Range(a, b) == a .. (b - 1)

Cells(sx, sy) == (0 .. sx - 1) \X (0 .. sy - 1)

\* nx = qx - 2 * ng; ilo = ng; ihi = ng + nx (and the same in y)
Nx == qx - 2 * ng
Ny == qy - 2 * ng
ilo == ng
ihi == ng + Nx
jlo == ng
jhi == ng + Ny

\* the interior cells ilo <= i < ihi, jlo <= j < jhi
Interior == Range(ilo, ihi) \X Range(jlo, jhi)

\* the six MHD slots, then the species
NVar == 6 + nspec
Slots == 0 .. NVar - 1

\* np.zeros_like
ZeroVec == [n \in Slots |-> Zero]
ZerosLike == [c \in Cells(qx, qy) |-> ZeroVec]

Unset == <<>>

---------------------------------------------------------------------------
(* Variable layout: the slot numbers the caller passes to every routine *)

\* primitive state (states): irho, iu, iv, ip, ibx, iby, ix
irho == 0
iu == 1
iv == 2
ip == 3
ibx == 4
iby == 5
ix == 6

\* conservative state: idens, ixmom, iymom, iener, ixmag, iymag, irhoX
idens == 0
ixmom == 1
iymom == 2
iener == 3
ixmag == 4
iymag == 5
irhoX == 6

\* the variables of the routines a specification does not call
StatesIdle == qv = Unset /\ q_l = Unset /\ q_r = Unset /\ dq = Unset
SourcesIdle == dx = Unset /\ U = Unset /\ Ux = Unset /\ S = Unset
EmfIdle ==
    /\ dy = Unset /\ Fx = Unset /\ Fy = Unset /\ use_ref = Unset
    /\ Eref = Unset /\ Ec = Unset /\ sel = Unset

RiemannIdle ==
    /\ gamma = Unset /\ U_l = Unset /\ U_r = Unset /\ waves = Unset
    /\ bp = Unset /\ bm = Unset /\ f_l = Unset /\ f_r = Unset /\ F = Unset
FluxIdle == U_state = Unset /\ Fc = Unset
FootprintIdle == reads = Unset /\ writes = Unset

\* the call's ghost width and array shape: ng >= 4, nx + ny = MaxN
InitGrid ==
    /\ ng \in 4 .. MaxNg
    /\ \E a \in 0 .. MaxN : qx = 2 * ng + a /\ qy = 2 * ng + (MaxN - a)

---------------------------------------------------------------------------
(* states: limited slopes and the left and right interface states *)

\* the neighbours of a cell along the sweep axis
Lower(d, c) == IF d = 1 THEN <<c[1] - 1, c[2]>> ELSE <<c[1], c[2] - 1>>
Upper(d, c) == IF d = 1 THEN <<c[1] + 1, c[2]>> ELSE <<c[1], c[2] + 1>>

\* the cells of the slice [1:-1] along the sweep axis, where the
\* differences are set; elsewhere dq_l, dq_r, dq_c keep their zeros
InSlice(d, c) == IF d = 1 THEN c[1] \in 1 .. qx - 2 ELSE c[2] \in 1 .. qy - 2

\* a limiter that forgets the forward difference
LimiterNoForward(l, r, c) ==
    RMul(RSign(c), NpMinimum(RMul(Two, RAbs(l)), RAbs(c)))

\* a limiter with a sign-agreement test: zero unless the one-sided
\* differences have the same sign
LimiterSignTest(l, r, c) ==
    IF RLt(Zero, RMul(l, r))
    THEN RMul(RSign(c),
              NpMinimum(RMul(Two, RAbs(l)), NpMinimum(RMul(Two, RAbs(r)), RAbs(c))))
    ELSE Zero

\* dq = sign(dq_c) * minimum(2 |dq_l|, minimum(2 |dq_r|, |dq_c|))
Limiter(l, r, c) ==
    RMul(RSign(c),
         NpMinimum(RMul(Two, RAbs(l)), NpMinimum(RMul(Two, RAbs(r)), RAbs(c))))

\* the slope of one component of one cell, from the field f
SlopeAt(d, f, c, n) ==
    IF InSlice(d, c)
    THEN Limiter(RSub(f[c][n], f[Lower(d, c)][n]),
                 RSub(f[Upper(d, c)][n], f[c][n]),
                 RMul(Half, RSub(f[Upper(d, c)][n], f[Lower(d, c)][n])))
    ELSE Limiter(Zero, Zero, Zero)

\* the slot whose slope is forced to zero: the field along the sweep
NormalFieldSlot(d) == IF d = 1 THEN ibx ELSE iby

LimitedSlopes(d, f) ==
    [c \in Cells(qx, qy) |->
        [n \in Slots |-> IF n = NormalFieldSlot(d) THEN Zero ELSE SlopeAt(d, f, c, n)]]

\* a loop over the interior only: range(ilo, ihi)
StatesRangeInterior(lo, hi) == Range(lo, hi)

\* for i in range(ilo - 3, ihi + 3) (and the same for j)
StatesRange(lo, hi) == Range(lo - 3, hi + 3)

StatesCells == StatesRange(ilo, ihi) \X StatesRange(jlo, jhi)

\* a left state that adds the whole slope
LeftStateFullSlope(v, s) == RAdd(v, s)

\* qv[i, j] + 0.5 * dq[i, j] and qv[i, j] - 0.5 * dq[i, j]
LeftState(v, s) == RAdd(v, RMul(Half, s))
RightState(v, s) == RSub(v, RMul(Half, s))

\* the cell (i, j) of the loop writes q_l at Upper and q_r at (i, j)
States(d) ==
    /\ pc = "ready"
    /\ dq' = LimitedSlopes(d, qv)
    /\ q_l' = [c \in Cells(qx, qy) |->
                 IF Lower(d, c) \in StatesCells
                 THEN [n \in Slots |->
                         LeftState(qv[Lower(d, c)][n], dq'[Lower(d, c)][n])]
                 ELSE ZeroVec]
    /\ q_r' = [c \in Cells(qx, qy) |->
                 IF c \in StatesCells
                 THEN [n \in Slots |-> RightState(qv[c][n], dq'[c][n])]
                 ELSE ZeroVec]
    /\ pc' = "states"
    /\ UNCHANGED footprint
    /\ idir' = d
    /\ UNCHANGED <<grid, qv, sourcesVars, emfVars, riemannVars, fluxVars>>

\* input fields of the reconstruction: three values repeating along both
\* axes, shifted by the slot number; three equal values give a uniform
\* field, <<0, 1, 0>> an extremum and <<0, 1, 5>> a steepening profile
Vals == (-MaxVal) .. MaxVal
PatternField(sx, sy, nv, tri) ==
    [c \in Cells(sx, sy) |->
        [n \in 0 .. nv - 1 |-> R(tri[((c[1] + 2 * c[2]) % 3) + 1] + n)]]

InitStates ==
    /\ pc = "ready"
    /\ idir = 0
    /\ FootprintIdle
    /\ InitGrid
    /\ nspec \in 0 .. MaxSpec
    /\ \E a \in Vals, b \in Vals :
          qv = PatternField(qx, qy, 6 + nspec, <<0, a, 5 * b>>)
    /\ q_l = Unset /\ q_r = Unset /\ dq = Unset
    /\ SourcesIdle /\ EmfIdle /\ RiemannIdle /\ FluxIdle

NextStates == \E d \in {1, 2} : States(d)

SpecStates == InitStates /\ [][NextStates]_vars

---------------------------------------------------------------------------
(* sources: the magnetic source term of the split update *)

\* a loop over the whole array: range(ilo - ng, ihi + ng)
SourcesRangeFull(lo, hi, g) == Range(lo - g, hi + g)

\* for i in range(ilo - ng + 1, ihi + ng - 1) (and the same for j)
SourcesRange(lo, hi, g) == Range(lo - g + 1, hi + g - 1)

SourcesCells == SourcesRange(ilo, ihi, ng) \X SourcesRange(jlo, jhi, ng)

\* the slot differenced across the cell: ixmag for idir = 1, else iymag
SwappedMagSlot(d) == IF d = 1 THEN iymag ELSE ixmag
NormalMagSlot(d) == IF d = 1 THEN ixmag ELSE iymag

\* b * (hi - lo) / h
SourceTerm(b, hi, lo, h) == RDiv(RMul(b, RSub(hi, lo)), h)

\* a source that multiplies both momenta by the x-field of the cell
SourceVecSameField(d, c) ==
    LET m == NormalMagSlot(d)
    IN  [n \in Slots |->
            IF n \in {ixmom, iymom}
            THEN SourceTerm(U[c][ixmag], Ux[Upper(d, c)][m], Ux[c][m], dx)
            ELSE Zero]

\* S[i, j, ixmom] and S[i, j, iymom] of one cell of the loop
SourceVec(d, c) ==
    LET m == NormalMagSlot(d)
    IN  [n \in Slots |->
            IF n = ixmom
            THEN SourceTerm(U[c][ixmag], Ux[Upper(d, c)][m], Ux[c][m], dx)
            ELSE IF n = iymom
            THEN SourceTerm(U[c][iymag], Ux[Upper(d, c)][m], Ux[c][m], dx)
            ELSE Zero]

Sources(d) ==
    /\ pc = "ready"
    /\ S' = [c \in Cells(qx, qy) |->
               IF c \in SourcesCells THEN SourceVec(d, c) ELSE ZeroVec]
    /\ pc' = "sources"
    /\ UNCHANGED footprint
    /\ idir' = d
    /\ UNCHANGED <<grid, statesVars, dx, U, Ux, emfVars, riemannVars, fluxVars>>

\* cell states: even slots hold a or 2a, odd slots b or 2b, in a
\* checkerboard, so that ixmag and iymag are independent
CellField(sx, sy, nv, a, b) ==
    [c \in Cells(sx, sy) |->
        [n \in 0 .. nv - 1 |->
            R((IF n % 2 = 0 THEN a ELSE b) * (1 + ((c[1] + c[2]) % 2)))]]

\* interface states: the x-field ramps with step tx and the y-field with
\* step ty over a period of three interfaces along both axes; the other
\* slots alternate between 0 and 1
RampField(sx, sy, nv, tx, ty) ==
    [c \in Cells(sx, sy) |->
        [n \in 0 .. nv - 1 |->
            IF n = ixmag THEN R(1 + tx * ((c[1] + 2 * c[2]) % 3))
            ELSE IF n = iymag THEN R(1 + ty * ((c[1] + 2 * c[2]) % 3))
            ELSE R((c[1] + c[2] + n) % 2)]]

Spacings == {One, Half}

InitSources ==
    /\ pc = "ready"
    /\ idir = 0
    /\ FootprintIdle
    /\ InitGrid
    /\ nspec = 0
    /\ dx \in Spacings
    /\ \E a \in Vals, b \in Vals : U = CellField(qx, qy, 6 + nspec, a, b)
    /\ \E tx \in 0 .. MaxVal, ty \in 0 .. MaxVal :
          Ux = RampField(qx, qy, 6 + nspec, tx, ty)
    /\ S = Unset
    /\ StatesIdle /\ EmfIdle /\ RiemannIdle /\ FluxIdle

NextSources == \E d \in {1, 2} : Sources(d)

SpecSources == InitSources /\ [][NextSources]_vars

---------------------------------------------------------------------------
(* emf: the corner EMF of the constrained-transport update *)

\* Er: -(u * by - v * bx) from U, or Eref broadcast to the array shape
Er(c) ==
    IF ~use_ref
    THEN RNeg(RSub(RMul(RDiv(U[c][ixmom], U[c][idens]), U[c][iymag]),
                   RMul(RDiv(U[c][iymom], U[c][idens]), U[c][ixmag])))
    ELSE IF <<0, 0>> \in DOMAIN Eref /\ Cardinality(DOMAIN Eref) = 1
         THEN Eref[<<0, 0>>]
         ELSE Eref[c]

\* Ex = -Fx[:, :, iymag]; Ey = Fy[:, :, ixmag]
Ex(c) == RNeg(Fx[c][iymag])
Ey(c) == Fy[c][ixmag]

\* a first loop over the interior only
EmfSlopeRangeInterior(lo, hi) == Range(lo, hi)

\* first loop: for i in range(ilo - 3, ihi + 3) (and the same for j)
EmfSlopeRange(lo, hi) == Range(lo - 3, hi + 3)
EmfSlopeCells == EmfSlopeRange(ilo, ihi) \X EmfSlopeRange(jlo, jhi)

\* second loop: for i in range(ilo - 2, ihi + 2) (and the same for j)
EmfCornerRange(lo, hi) == Range(lo - 2, hi + 2)
EmfCornerCells == EmfCornerRange(ilo, ihi) \X EmfCornerRange(jlo, jhi)

West(c) == <<c[1] - 1, c[2]>>
East(c) == <<c[1] + 1, c[2]>>
South(c) == <<c[1], c[2] - 1>>
North(c) == <<c[1], c[2] + 1>>

\* 2 * (a - b) / h
QuarterSlope(a, b, h) == RDiv(RMul(Two, RSub(a, b)), h)

\* the four slope arrays: zero outside the first loop's cells
dEdy_14(c) == IF c \in EmfSlopeCells THEN QuarterSlope(Er(c), Ey(c), dy) ELSE Zero
dEdx_14(c) == IF c \in EmfSlopeCells THEN QuarterSlope(Er(c), Ex(c), dx) ELSE Zero
dEdy_34(c) == IF c \in EmfSlopeCells THEN QuarterSlope(Ey(c), Er(South(c)), dy) ELSE Zero
dEdx_34(c) == IF c \in EmfSlopeCells THEN QuarterSlope(Ex(c), Er(West(c)), dx) ELSE Zero

\* a choice that takes this cell's slope for a positive flux
UpwindReversed(flux, low, here) ==
    IF RLt(Zero, flux) THEN here
    ELSE IF RLt(flux, Zero) THEN low
    ELSE RMul(Half, RAdd(low, here))

\* the slope chosen by the sign of a mass flux: the low-side cell's for a
\* positive flux, this cell's for a negative one, their mean for zero
Upwind(flux, low, here) ==
    IF RLt(Zero, flux) THEN low
    ELSE IF RLt(flux, Zero) THEN here
    ELSE RMul(Half, RAdd(low, here))

\* dEdyx_14, dEdyx_34, dEdxy_14, dEdxy_34 of corner c
CornerSlopes(c) ==
    [dEdyx_14 |-> Upwind(Fx[c][idens], dEdy_14(West(c)), dEdy_14(c)),
     dEdyx_34 |-> Upwind(Fx[South(c)][idens], dEdy_34(West(c)), dEdy_34(c)),
     dEdxy_14 |-> Upwind(Fy[c][idens], dEdx_14(South(c)), dEdx_14(c)),
     dEdxy_34 |-> Upwind(Fy[West(c)][idens], dEdx_34(South(c)), dEdx_34(c))]

\* Ec[i, j]: the mean of the four edge EMFs plus the slope corrections
CornerEmf(c, sl) ==
    RAdd(RAdd(RMul(Quarter, RAdd(RAdd(RAdd(Ex(c), Ex(North(c))), Ey(c)), Ey(East(c)))),
              RMul(RMul(Eighth, dy), RSub(sl.dEdyx_14, sl.dEdyx_34))),
         RMul(RMul(Eighth, dx), RSub(sl.dEdxy_14, sl.dEdxy_34)))

NoSlopes == [dEdyx_14 |-> Zero, dEdyx_34 |-> Zero, dEdxy_14 |-> Zero, dEdxy_34 |-> Zero]

Emf ==
    /\ pc = "ready"
    /\ sel' = [c \in Cells(qx, qy) |->
                 IF c \in EmfCornerCells THEN CornerSlopes(c) ELSE NoSlopes]
    /\ Ec' = [c \in Cells(qx, qy) |->
                IF c \in EmfCornerCells THEN CornerEmf(c, sel'[c]) ELSE Zero]
    /\ pc' = "emf"
    /\ UNCHANGED footprint
    /\ UNCHANGED <<idir, grid, statesVars, sourcesVars, dy, Fx, Fy, use_ref, Eref>>
    /\ UNCHANGED <<riemannVars, fluxVars>>

Checker(c) == (c[1] + c[2]) % 2
Phase(c) == (c[1] + 2 * c[2]) % 3

\* cell states for emf: momenta (mx, my), field (1, 2), density 1, or 1, 2
\* and 3 repeating along both axes when k = 1
EmfCellField(sx, sy, mx, my, k) ==
    [c \in Cells(sx, sy) |->
        [n \in 0 .. 5 |->
            IF n = idens THEN R(1 + k * Phase(c))
            ELSE IF n = ixmom THEN R(mx)
            ELSE IF n = iymom THEN R(my)
            ELSE IF n = iener THEN R(4)
            ELSE IF n = ixmag THEN R(1)
            ELSE R(2)]]

\* a flux field: mass flux m and field flux e in slot fs, uniform for k = 0;
\* for k = 1 the mass flux changes sign and the field flux grows by one on
\* every other cell
FluxField(sx, sy, fs, m, e, k) ==
    [c \in Cells(sx, sy) |->
        [n \in 0 .. 5 |->
            IF n = idens THEN R(m * (1 - 2 * k * Checker(c)))
            ELSE IF n = fs THEN R(e + k * Checker(c))
            ELSE Zero]]

\* the reference EMF passed in: the default zeros of shape (1, 1), or an
\* array of the grid's shape
DefaultEref == [c \in Cells(1, 1) |-> Zero]
ArrayEref(sx, sy, r) == [c \in Cells(sx, sy) |-> R(1 + r * Phase(c))]

InitEmf ==
    /\ pc = "ready"
    /\ idir = 0
    /\ FootprintIdle
    /\ InitGrid
    /\ nspec = 0
    /\ \E h \in {<<One, Half>>, <<Half, One>>} : dx = h[1] /\ dy = h[2]
    /\ \E mx \in Vals, my \in Vals, k \in {0, 1} :
          /\ U = EmfCellField(qx, qy, mx, my, k)
          /\ Fx = FluxField(qx, qy, iymag, mx, 1, k)
          /\ Fy = FluxField(qx, qy, ixmag, my, 3, k)
    /\ \/ use_ref = FALSE /\ Eref = DefaultEref
       \/ use_ref = TRUE /\ \E r \in {0, 1} : Eref = ArrayEref(qx, qy, r)
    /\ Ec = Unset /\ sel = Unset
    /\ Ux = Unset /\ S = Unset
    /\ StatesIdle /\ RiemannIdle /\ FluxIdle

NextEmf == Emf

SpecEmf == InitEmf /\ [][NextEmf]_vars

---------------------------------------------------------------------------
(* consFlux: the conservative flux of one state *)

\* the thermal pressure without the factor (gamma - 1)
ConsFluxPressureNoGamma(g, Us) ==
    LET u == RDiv(Us[ixmom], Us[idens])
        v == RDiv(Us[iymom], Us[idens])
        b2 == RAdd(RSq(Us[ixmag]), RSq(Us[iymag]))
    IN  RSub(RSub(Us[iener], RMul(RMul(Half, Us[idens]), RAdd(RSq(u), RSq(v)))),
             RMul(Half, b2))

\* p = (E - 0.5 * rho * (u**2 + v**2) - 0.5 * b2) * (gamma - 1.0)
ConsFluxPressure(g, Us) ==
    LET u == RDiv(Us[ixmom], Us[idens])
        v == RDiv(Us[iymom], Us[idens])
        b2 == RAdd(RSq(Us[ixmag]), RSq(Us[iymag]))
    IN  RMul(RSub(RSub(Us[iener], RMul(RMul(Half, Us[idens]), RAdd(RSq(u), RSq(v)))),
                  RMul(Half, b2)),
             RSub(g, One))

ConsFlux(d, g, naux, Us) ==
    LET u == RDiv(Us[ixmom], Us[idens])
        v == RDiv(Us[iymom], Us[idens])
        bx == Us[ixmag]
        by == Us[iymag]
        b2 == RAdd(RSq(bx), RSq(by))
        p == ConsFluxPressure(g, Us)
        vn == IF d = 1 THEN u ELSE v
        bn == IF d = 1 THEN bx ELSE by
        \* (E + p + 0.5 * b2) * vn - bn * (bx * u + by * v)
        fener == RSub(RMul(RAdd(RAdd(Us[iener], p), RMul(Half, b2)), vn),
                      RMul(bn, RAdd(RMul(bx, u), RMul(by, v))))
    IN  [n \in DOMAIN Us |->
            IF n = idens THEN RMul(Us[idens], vn)
            ELSE IF n = ixmom THEN
                IF d = 1
                THEN RSub(RAdd(RAdd(RMul(Us[ixmom], u), p), RMul(Half, b2)), RSq(bx))
                ELSE RSub(RMul(Us[ixmom], v), RMul(bx, by))
            ELSE IF n = iymom THEN
                IF d = 1
                THEN RSub(RMul(Us[iymom], u), RMul(bx, by))
                ELSE RSub(RAdd(RAdd(RMul(Us[iymom], v), p), RMul(Half, b2)), RSq(by))
            ELSE IF n = iener THEN fener
            ELSE IF n = ixmag THEN
                IF d = 1 THEN Zero ELSE RSub(RMul(bx, v), RMul(by, u))
            ELSE IF n = iymag THEN
                IF d = 1 THEN RSub(RMul(by, u), RMul(bx, v)) ELSE Zero
            ELSE IF naux > 0 /\ n \in Range(irhoX, irhoX + naux) THEN RMul(Us[n], vn)
            ELSE Zero]

ConsFluxCall(d) ==
    /\ pc = "ready"
    /\ Fc' = ConsFlux(d, gamma, nspec, U_state)
    /\ pc' = "consFlux"
    /\ UNCHANGED footprint
    /\ idir' = d
    /\ UNCHANGED <<grid, statesVars, sourcesVars, emfVars, riemannVars, U_state>>

\* the conservative state of the primitive values (rho, u, v, p, bx, by)
\* with nsp species of mass fraction 1/2:
\* E = p / (gamma - 1) + rho (u^2 + v^2) / 2 + (bx^2 + by^2) / 2
ConsState(g, nsp, rho, u, v, p, bx, by) ==
    [n \in 0 .. 5 + nsp |->
        IF n = idens THEN R(rho)
        ELSE IF n = ixmom THEN R(rho * u)
        ELSE IF n = iymom THEN R(rho * v)
        ELSE IF n = iener THEN
            RAdd(RDiv(R(p), RSub(g, One)),
                 RMul(Half, R(rho * (u * u + v * v) + bx * bx + by * by)))
        ELSE IF n = ixmag THEN R(bx)
        ELSE IF n = iymag THEN R(by)
        ELSE RMul(Half, R(rho))]

Gammas == {<<5, 3>>, Two}

\* densities are perfect squares, so that their square roots are rational
Densities == {1, 4}

InitFlux ==
    /\ pc = "ready"
    /\ idir = 0
    /\ FootprintIdle
    /\ ng = Unset /\ qx = Unset /\ qy = Unset
    /\ nspec \in 0 .. MaxSpec
    /\ gamma \in Gammas
    /\ \E rho \in Densities, u \in Vals, v \in Vals, b \in 0 .. MaxVal :
          U_state = ConsState(gamma, nspec, rho, u, v, 1, b, b * rho)
    /\ Fc = Unset
    /\ StatesIdle /\ SourcesIdle /\ EmfIdle
    /\ U_l = Unset /\ U_r = Unset /\ waves = Unset
    /\ bp = Unset /\ bm = Unset /\ f_l = Unset /\ f_r = Unset /\ F = Unset

NextFlux == \E d \in {1, 2} : ConsFluxCall(d)

SpecFlux == InitFlux /\ [][NextFlux]_vars

---------------------------------------------------------------------------
(* riemann_adiabatic: the HLLE flux at every interface *)

(* The square roots of the sound, Alfven and magnetosonic speeds are        *)
(* irrational.  Those of the densities are taken exactly (the densities of  *)
(* the model are perfect squares); the others are inputs of the model: at   *)
(* an interface the code computes the fast speeds cf_l and cf_r, which are  *)
(* positive because c_l, c_r >= smallc > 0, and in calc_evals the roots     *)
(* sqrt(Cf2), sqrt(CAx2) and sqrt(Cs2), which are not negative.  The        *)
(* pressures, the Roe-averaged energy and field, X and Y and the face       *)
(* fields Bx, By enter the result only through these roots.                 *)

\* np.sqrt of a perfect square
ISqrt(n) == CHOOSE k \in 0 .. n : k * k = n
Sqrt(x) == <<ISqrt(x[1]), ISqrt(x[2])>>

\* q_av[slot] of a momentum slot: the Roe-averaged velocity
\* (U_l / sqrt(rho_l) + U_r / sqrt(rho_r)) / (sqrt(rho_l) + sqrt(rho_r))
RoeVelocity(slot, ul, ur) ==
    RDiv(RAdd(RDiv(ul[slot], Sqrt(ul[idens])), RDiv(ur[slot], Sqrt(ur[idens]))),
         RAdd(Sqrt(ul[idens]), Sqrt(ur[idens])))

\* the density and momenta of U_av
RoeState(ul, ur) ==
    LET dens == Sqrt(RMul(ul[idens], ur[idens]))
    IN  [n \in {idens, ixmom, iymom} |->
            IF n = idens THEN dens ELSE RMul(dens, RoeVelocity(n, ul, ur))]

\* calc_evals: the seven eigenvalues around the normal velocity of U
CalcEvals(d, Uav, w) ==
    LET u == RDiv(Uav[ixmom], Uav[idens])
        v == RDiv(Uav[iymom], Uav[idens])
        vx == IF d = 1 THEN u ELSE v
    IN  <<RSub(vx, w.Cf), RSub(vx, w.CAx), RSub(vx, w.Cs), vx,
          RAdd(vx, w.Cs), RAdd(vx, w.CAx), RAdd(vx, w.Cf)>>

\* np.max and np.min of an array
Elements(a) == {a[k] : k \in DOMAIN a}
NpMax(a) == CHOOSE x \in Elements(a) : \A y \in Elements(a) : RLe(y, x)
NpMin(a) == CHOOSE x \in Elements(a) : \A y \in Elements(a) : RLe(x, y)

\* speed bounds without the final clamp at zero
UpperBoundNoClamp(evals, un, cf) == PyMax(NpMax(evals), RAdd(un, cf))

\* bp = max(max(np.max(evals), un_r + cf_r), 0)
UpperBound(evals, un, cf) == PyMax(PyMax(NpMax(evals), RAdd(un, cf)), Zero)

\* bm = min(min(np.min(evals), un_l - cf_l), 0)
LowerBound(evals, un, cf) == PyMin(PyMin(NpMin(evals), RSub(un, cf)), Zero)

\* un: the momentum along the sweep over the density
NormalVelocity(d, Us) == RDiv(Us[IF d = 1 THEN ixmom ELSE iymom], Us[idens])

BpAt(d, ul, ur, w) ==
    UpperBound(CalcEvals(d, RoeState(ul, ur), w), NormalVelocity(d, ur), w.cf_r)
BmAt(d, ul, ur, w) ==
    LowerBound(CalcEvals(d, RoeState(ul, ur), w), NormalVelocity(d, ul), w.cf_l)

\* a blend that adds the right flux instead of subtracting it
HLLEFluxPlus(b_p, b_m, fl, fr, ul, ur) ==
    [n \in DOMAIN ul |->
        RAdd(RDiv(RAdd(RMul(b_p, fl[n]), RMul(b_m, fr[n])), RSub(b_p, b_m)),
             RMul(RDiv(RMul(b_p, b_m), RSub(b_p, b_m)), RSub(ur[n], ul[n])))]

\* F = (bp * f_l - bm * f_r) / (bp - bm) + bp * bm / (bp - bm) * (U_r - U_l)
HLLEFlux(b_p, b_m, fl, fr, ul, ur) ==
    [n \in DOMAIN ul |->
        RAdd(RDiv(RSub(RMul(b_p, fl[n]), RMul(b_m, fr[n])), RSub(b_p, b_m)),
             RMul(RDiv(RMul(b_p, b_m), RSub(b_p, b_m)), RSub(ur[n], ul[n])))]

\* a loop one interface wider on both sides
RiemannRangeWide(lo, hi) == Range(lo - 3, hi + 3)

\* for i in range(ilo - 2, ihi + 2) (and the same for j)
RiemannRange(lo, hi) == Range(lo - 2, hi + 2)
RiemannCells == RiemannRange(ilo, ihi) \X RiemannRange(jlo, jhi)

\* the roots the code may take at an interface
WaveDraws ==
    {[cf_l |-> a[1], cf_r |-> a[2], Cf |-> b[1], CAx |-> b[2], Cs |-> b[3]] :
        a \in {<<Half, Two>>, <<Two, Half>>, <<Half, Half>>},
        b \in {<<Zero, Zero, Zero>>, <<Two, One, Half>>}}

RiemannAdiabatic(d) ==
    /\ pc = "ready"
    /\ \E w \in WaveDraws :
          /\ waves' = w
          /\ bp' = [c \in Cells(qx, qy) |->
                      IF c \in RiemannCells THEN BpAt(d, U_l[c], U_r[c], w) ELSE Zero]
          /\ bm' = [c \in Cells(qx, qy) |->
                      IF c \in RiemannCells THEN BmAt(d, U_l[c], U_r[c], w) ELSE Zero]
    /\ f_l' = [c \in Cells(qx, qy) |->
                 IF c \in RiemannCells THEN ConsFlux(d, gamma, nspec, U_l[c]) ELSE ZeroVec]
    /\ f_r' = [c \in Cells(qx, qy) |->
                 IF c \in RiemannCells THEN ConsFlux(d, gamma, nspec, U_r[c]) ELSE ZeroVec]
    \* the four arrays are evaluated once, before the blend reads them
    /\ bp' = bp' /\ bm' = bm' /\ f_l' = f_l' /\ f_r' = f_r'
    /\ F' = [c \in Cells(qx, qy) |->
               IF c \in RiemannCells
               THEN HLLEFlux(bp'[c], bm'[c], f_l'[c], f_r'[c], U_l[c], U_r[c])
               ELSE ZeroVec]
    /\ pc' = "riemann"
    /\ UNCHANGED footprint
    /\ idir' = d
    /\ UNCHANGED <<grid, statesVars, sourcesVars, emfVars, gamma, U_l, U_r, fluxVars>>

\* interface states: one left and one right state over the whole array
ConstField(sx, sy, Us) == [c \in Cells(sx, sy) |-> Us]

InitRiemann ==
    /\ pc = "ready"
    /\ idir = 0
    /\ FootprintIdle
    /\ ng \in 4 .. MaxNg
    /\ qx = 2 * ng + MaxN /\ qy = 2 * ng
    /\ nspec = MaxSpec
    /\ gamma \in Gammas
    /\ \E rl \in Densities, vl \in Vals :
          U_l = ConstField(qx, qy, ConsState(gamma, nspec, rl, vl, -vl, 1, 1, 2))
    /\ \E rr \in Densities, vr \in Vals :
          U_r = ConstField(qx, qy, ConsState(gamma, nspec, rr, vr, -vr, 1, 1, 2))
    /\ waves = Unset /\ bp = Unset /\ bm = Unset
    /\ f_l = Unset /\ f_r = Unset /\ F = Unset
    /\ StatesIdle /\ SourcesIdle /\ EmfIdle /\ FluxIdle

NextRiemann == \E d \in {1, 2} : RiemannAdiabatic(d)

SpecRiemann == InitRiemann /\ [][NextRiemann]_vars

---------------------------------------------------------------------------
(* The index footprint of the four array routines *)

(* The footprint specification keeps the loop ranges and the index         *)
(* expressions of states, riemann_adiabatic, emf and sources and leaves    *)
(* the values out: each action records which elements <<array, <<i, j>>>>   *)
(* the routine reads and writes, an index outside the array included.  A   *)
(* slice (qv[1:-1], U[:, :, ixmom]) covers cells of the array only.  Where  *)
(* a branch decides which of two elements is read (the upwind choice of    *)
(* emf) both are recorded.  The ghost width starts at 3.  The external     *)
(* driver calls riemann_adiabatic on the output of states, with the same   *)
(* idir and ng; the writes of states are kept until then.                  *)

At(name, cells) == {<<name, c>> : c \in cells}

\* states: the slices of qv and the whole-array dq, then the loop
StatesReads(d) ==
    At("qv", Cells(qx, qy)) \cup At("qv", StatesCells) \cup At("dq", StatesCells)
StatesWrites(d) ==
    At("dq", Cells(qx, qy)) \cup At("q_l", {Upper(d, c) : c \in StatesCells})
        \cup At("q_r", StatesCells)

StatesFootprint(d) ==
    /\ pc = "ready"
    /\ reads' = StatesReads(d)
    /\ writes' = StatesWrites(d)
    /\ pc' = "states"
    /\ idir' = d
    /\ UNCHANGED <<grid, statesVars, sourcesVars, emfVars, riemannVars, fluxVars>>

\* riemann_adiabatic: U_l, U_r and the face field of the sweep at (i, j)
RiemannReads(d) ==
    At("U_l", RiemannCells) \cup At("U_r", RiemannCells)
        \cup At(IF d = 1 THEN "Bx" ELSE "By", RiemannCells)
RiemannWrites == At("F", RiemannCells)

\* called on the interface states of the same sweep
RiemannFootprint ==
    /\ pc = "states"
    /\ reads' = RiemannReads(idir)
    /\ writes' = writes \cup RiemannWrites
    /\ pc' = "riemann"
    /\ UNCHANGED <<idir, grid, statesVars, sourcesVars, emfVars, riemannVars, fluxVars>>

\* emf: the whole-array statements, the slope loop and the corner loop
EmfReads ==
    At("U", Cells(qx, qy)) \cup At("Fx", Cells(qx, qy)) \cup At("Fy", Cells(qx, qy))
        \cup At("Er", EmfSlopeCells) \cup At("Ex", EmfSlopeCells) \cup At("Ey", EmfSlopeCells)
        \cup At("Er", {South(c) : c \in EmfSlopeCells})
        \cup At("Er", {West(c) : c \in EmfSlopeCells})
        \cup At("Fx", EmfCornerCells) \cup At("Fx", {South(c) : c \in EmfCornerCells})
        \cup At("Fy", EmfCornerCells) \cup At("Fy", {West(c) : c \in EmfCornerCells})
        \cup At("dEdy_14", EmfCornerCells) \cup At("dEdy_14", {West(c) : c \in EmfCornerCells})
        \cup At("dEdy_34", EmfCornerCells) \cup At("dEdy_34", {West(c) : c \in EmfCornerCells})
        \cup At("dEdx_14", EmfCornerCells) \cup At("dEdx_14", {South(c) : c \in EmfCornerCells})
        \cup At("dEdx_34", EmfCornerCells) \cup At("dEdx_34", {South(c) : c \in EmfCornerCells})
        \cup At("Ex", EmfCornerCells) \cup At("Ex", {North(c) : c \in EmfCornerCells})
        \cup At("Ey", EmfCornerCells) \cup At("Ey", {East(c) : c \in EmfCornerCells})
EmfWrites ==
    At("Er", Cells(qx, qy)) \cup At("Ex", Cells(qx, qy)) \cup At("Ey", Cells(qx, qy))
        \cup At("dEdy_14", EmfSlopeCells) \cup At("dEdx_14", EmfSlopeCells)
        \cup At("dEdy_34", EmfSlopeCells) \cup At("dEdx_34", EmfSlopeCells)
        \cup At("Ec", EmfCornerCells)

EmfFootprint ==
    /\ pc = "ready"
    /\ reads' = EmfReads
    /\ writes' = EmfWrites
    /\ pc' = "emf"
    /\ UNCHANGED <<idir, grid, statesVars, sourcesVars, emfVars, riemannVars, fluxVars>>

\* sources: U at the cell, Ux at the cell and at its upper neighbour
SourcesReads(d) ==
    At("U", SourcesCells) \cup At("Ux", SourcesCells)
        \cup At("Ux", {Upper(d, c) : c \in SourcesCells})
SourcesWrites == At("S", SourcesCells)

SourcesFootprint(d) ==
    /\ pc = "ready"
    /\ reads' = SourcesReads(d)
    /\ writes' = SourcesWrites
    /\ pc' = "sources"
    /\ idir' = d
    /\ UNCHANGED <<grid, statesVars, sourcesVars, emfVars, riemannVars, fluxVars>>

\* every ghost width from 3 and every interior size nx, ny in 0..MaxN
InitFootprint ==
    /\ pc = "ready"
    /\ idir = 0
    /\ ng \in 3 .. MaxNg
    /\ \E a \in 0 .. MaxN, b \in 0 .. MaxN : qx = 2 * ng + a /\ qy = 2 * ng + b
    /\ nspec = 0
    /\ reads = {} /\ writes = {}
    /\ StatesIdle /\ SourcesIdle /\ EmfIdle /\ RiemannIdle /\ FluxIdle

NextFootprint ==
    \/ \E d \in {1, 2} : StatesFootprint(d)
    \/ RiemannFootprint
    \/ EmfFootprint
    \/ \E d \in {1, 2} : SourcesFootprint(d)

SpecFootprint == InitFootprint /\ [][NextFootprint]_vars

---------------------------------------------------------------------------
(* Properties of states *)

UniformField(f) == \A c1 \in DOMAIN f, c2 \in DOMAIN f : f[c1] = f[c2]

\* C1: for a spatially uniform primitive field (and ng >= 4), states
\* returns q_l = q_r = qv at every interior cell, in every component.
C1_UniformReconstruction ==
    (pc = "states" /\ ng >= 4 /\ UniformField(qv)) =>
        \A c \in Interior : q_l[c] = qv[c] /\ q_r[c] = qv[c]

\* a uniform, nonzero field on a grid with an interior cell, reconstructed
C1_Witness ==
    /\ pc = "states" /\ idir = 2 /\ UniformField(qv)
    /\ \E c \in Interior : qv[c][iu] # Zero /\ q_l[c] = qv[c]

\* the cells with both neighbours along the sweep axis inside the array
WithNeighbours(d) ==
    {c \in Cells(qx, qy) : Lower(d, c) \in Cells(qx, qy) /\ Upper(d, c) \in Cells(qx, qy)}

BackwardDiff(d, c, n) == RSub(qv[c][n], qv[Lower(d, c)][n])
ForwardDiff(d, c, n) == RSub(qv[Upper(d, c)][n], qv[c][n])
CenteredDiff(d, c, n) == RMul(Half, RSub(qv[Upper(d, c)][n], qv[Lower(d, c)][n]))

\* C2: for any three consecutive values along the sweep axis the limited
\* slope is zero or has the sign of the centered difference, and its
\* magnitude is at most min(2|backward|, 2|forward|, |centered|).
C2_LimitedSlopeBound ==
    pc = "states" =>
        \A c \in WithNeighbours(idir), n \in Slots :
            /\ dq[c][n] = Zero \/ RSign(dq[c][n]) = RSign(CenteredDiff(idir, c, n))
            /\ RLe(RAbs(dq[c][n]), RMul(Two, RAbs(BackwardDiff(idir, c, n))))
            /\ RLe(RAbs(dq[c][n]), RMul(Two, RAbs(ForwardDiff(idir, c, n))))
            /\ RLe(RAbs(dq[c][n]), RAbs(CenteredDiff(idir, c, n)))

\* a nonzero slope that the limiter cut below the centered difference, down
\* to twice a one-sided difference
C2_Witness ==
    /\ pc = "states"
    /\ \E c \in WithNeighbours(idir), n \in Slots :
          /\ dq[c][n] # Zero
          /\ RLt(RAbs(dq[c][n]), RAbs(CenteredDiff(idir, c, n)))
          /\ RAbs(dq[c][n]) = RMul(Two, RAbs(BackwardDiff(idir, c, n)))

---------------------------------------------------------------------------
(* Properties of sources *)

\* the normal-field difference across cell c divided by dx, from the inputs
NormalFieldGradient(c) ==
    LET m == IF idir = 1 THEN ixmag ELSE iymag
        up == IF idir = 1 THEN <<c[1] + 1, c[2]>> ELSE <<c[1], c[2] + 1>>
    IN  RDiv(RSub(Ux[up][m], Ux[c][m]), dx)

NormalFieldUniform ==
    \A c1 \in DOMAIN Ux, c2 \in DOMAIN Ux :
        Ux[c1][IF idir = 1 THEN ixmag ELSE iymag] = Ux[c2][IF idir = 1 THEN ixmag ELSE iymag]

\* C7: if the sweep-normal field of Ux is the same at every interface, the
\* source array is zero in every cell and component, whatever U is.
C7_SourceVanishes ==
    (pc = "sources" /\ NormalFieldUniform) =>
        \A c \in Cells(qx, qy), n \in Slots : S[c][n] = Zero

\* a uniform normal field next to a varying transverse field, a cell with
\* nonzero field, and the routine has run
C7_Witness ==
    /\ pc = "sources" /\ NormalFieldUniform
    /\ \E c \in SourcesCells : U[c][ixmag] # Zero /\ U[c][iymag] # Zero
    /\ \E c1 \in DOMAIN Ux, c2 \in DOMAIN Ux :
          Ux[c1][IF idir = 1 THEN iymag ELSE ixmag] # Ux[c2][IF idir = 1 THEN iymag ELSE ixmag]

\* C8 as stated: in every cell sources updates, both momentum components
\* receive the same value, S[i,j,ixmom] = S[i,j,iymom].
C8_SameSourceBothMomenta ==
    pc = "sources" => \A c \in SourcesCells : S[c][ixmom] = S[c][iymom]

\* C8 amended: both momentum components use the same normal-field
\* difference quotient, each multiplied by its own field component of the
\* cell: S[ixmom] = U[ixmag] * dB/dx and S[iymom] = U[iymag] * dB/dx.
C8_SourcePerComponentField ==
    pc = "sources" =>
        \A c \in SourcesCells :
            /\ S[c][ixmom] = RMul(U[c][ixmag], NormalFieldGradient(c))
            /\ S[c][iymom] = RMul(U[c][iymag], NormalFieldGradient(c))

\* a cell whose two momentum sources are nonzero and differ
C8_Witness ==
    /\ pc = "sources"
    /\ \E c \in SourcesCells :
          /\ S[c][ixmom] # Zero /\ S[c][iymom] # Zero
          /\ S[c][ixmom] # S[c][iymom]
          /\ NormalFieldGradient(c) # Zero

---------------------------------------------------------------------------
(* Properties of emf *)

\* the corners bounding an interior cell: ilo <= i <= ihi, jlo <= j <= jhi
InteriorCorners == (ilo .. ihi) \X (jlo .. jhi)

UniformInputs == UniformField(U) /\ UniformField(Fx) /\ UniformField(Fy)

\* C6 as stated: for spatially uniform U, Fx and Fy, every corner EMF
\* bounding an interior cell equals every other.
C6_UniformEmf ==
    (pc = "emf" /\ UniformInputs) =>
        \A c1 \in InteriorCorners, c2 \in InteriorCorners : Ec[c1] = Ec[c2]

\* C6 amended: for spatially uniform U, Fx and Fy and, when use_ref is set,
\* a spatially uniform Eref, every corner EMF bounding an interior cell
\* equals every other.
C6_UniformEmfUniformRef ==
    (pc = "emf" /\ UniformInputs /\ (use_ref => UniformField(Eref))) =>
        \A c1 \in InteriorCorners, c2 \in InteriorCorners : Ec[c1] = Ec[c2]

\* uniform inputs with a rightward mass flux, a nonzero selected slope and
\* a nonzero corner EMF
C6_Witness ==
    /\ pc = "emf" /\ UniformInputs /\ ~use_ref
    /\ \E c \in InteriorCorners :
          /\ RLt(Zero, Fx[c][idens])
          /\ sel[c].dEdyx_14 # Zero
          /\ sel[c].dEdxy_34 # Zero
          /\ Ec[c] # Zero

---------------------------------------------------------------------------
(* Properties of consFlux *)

\* density 1, zero momenta, pressure 1 (energy 1 / (gamma - 1)), no field
SpotState ==
    /\ U_state[idens] = One
    /\ U_state[ixmom] = Zero /\ U_state[iymom] = Zero
    /\ U_state[iener] = RDiv(One, RSub(gamma, One))
    /\ U_state[ixmag] = Zero /\ U_state[iymag] = Zero

\* C5: for density 1, zero velocity, pressure 1 and zero field, consFlux
\* returns 1 in the normal-momentum slot and 0 in the density,
\* transverse-momentum, energy and both field slots and in every species
\* slot, for either sweep direction.
C5_FluxSpotCheck ==
    (pc = "consFlux" /\ SpotState) =>
        /\ Fc[idens] = Zero
        /\ Fc[IF idir = 1 THEN ixmom ELSE iymom] = One
        /\ Fc[IF idir = 1 THEN iymom ELSE ixmom] = Zero
        /\ Fc[iener] = Zero
        /\ Fc[ixmag] = Zero /\ Fc[iymag] = Zero
        /\ \A n \in DOMAIN Fc : n >= irhoX => Fc[n] = Zero

\* the spot state with a species present, after a y-sweep flux
C5_Witness ==
    /\ pc = "consFlux" /\ idir = 2 /\ SpotState
    /\ nspec > 0 /\ U_state[irhoX] # Zero
    /\ gamma # Two
    /\ Fc[iymom] = One

---------------------------------------------------------------------------
(* Properties of riemann_adiabatic *)

C4_SpeedBounds ==
    pc = "riemann" =>
        \A c \in RiemannCells : RLe(Zero, bp[c]) /\ RLe(bm[c], Zero)

\* an interface where every wave runs to the left: the largest eigenvalue
\* and un_r + cf_r are negative and the upper bound is clamped to zero
C4_Witness ==
    /\ pc = "riemann"
    /\ \E c \in RiemannCells :
          /\ RLt(RAdd(NormalVelocity(idir, U_r[c]), waves.cf_r), Zero)
          /\ RLt(NpMax(CalcEvals(idir, RoeState(U_l[c], U_r[c]), waves)), Zero)
          /\ bp[c] = Zero /\ RLt(bm[c], Zero)

---------------------------------------------------------------------------
(* Properties of the index footprint *)

InBounds(e) == e[2][1] \in 0 .. qx - 1 /\ e[2][2] \in 0 .. qy - 1

\* C9: for every ghost width ng >= 4 and every grid of shape
\* (nx + 2 ng, ny + 2 ng), nx, ny >= 0, every array element that states,
\* riemann_adiabatic, emf and sources read or write has its indices inside
\* [0, qx) x [0, qy); with ng = 3 this fails: states and emf each touch an
\* element outside.
C9_AccessesInBounds ==
    /\ (pc \in {"states", "riemann", "emf", "sources"} /\ ng >= 4) =>
           \A e \in reads \cup writes : InBounds(e)
    /\ (pc \in {"states", "emf"} /\ ng = 3) =>
           \E e \in reads \cup writes : ~InBounds(e)

\* with ng = 4 the corner loop of emf has run and the slope loop read Er in
\* the first column and the first row of the array
C9_Witness ==
    /\ pc = "emf" /\ ng = 4
    /\ \E e \in reads : e[1] = "Er" /\ e[2][1] = 0
    /\ \E e \in reads : e[1] = "Er" /\ e[2][2] = 0
    /\ \E e \in reads : e[1] = "Ey" /\ e[2][1] = qx - 2

ReadAt(name) == {e[2] : e \in {r \in reads : r[1] = name}}
WrittenAt(name) == {e[2] : e \in {w \in writes : w[1] = name}}

\* C10: in one sweep with ng >= 4, riemann_adiabatic reads U_l and U_r at
\* the positions ilo-2 <= i < ihi+2, jlo-2 <= j < jhi+2, and at each of them
\* states wrote both the left state q_l and the right state q_r.
C10_RiemannReadsWritten ==
    (pc = "riemann" /\ ng >= 4) =>
        /\ ReadAt("U_l") = (ilo - 2 .. ihi + 1) \X (jlo - 2 .. jhi + 1)
        /\ ReadAt("U_r") = ReadAt("U_l")
        /\ ReadAt("U_l") \subseteq WrittenAt("q_l")
        /\ ReadAt("U_r") \subseteq WrittenAt("q_r")

\* a y-sweep whose lowest row of interfaces read is the lowest row of left
\* states written
C10_Witness ==
    /\ pc = "riemann" /\ ng >= 4 /\ idir = 2
    /\ \E c \in ReadAt("U_l") :
          /\ c[2] = jlo - 2
          /\ c \in WrittenAt("q_l")
          /\ <<c[1], c[2] - 1>> \notin WrittenAt("q_l")

---------------------------------------------------------------------------
(* Further properties of states *)

\* the cells of the reconstruction loop, written out
LoopCells == (ilo - 3 .. ihi + 2) \X (jlo - 3 .. jhi + 2)

\* C11: for every cell index in [ilo-3, ihi+3) x [jlo-3, jhi+3), states
\* sets right[i] = cell[i] - slope[i]/2 and left[i+1] = cell[i] + slope[i]/2
\* along the sweep axis, so that left[i] and right[i] are the two states at
\* the interface i-1/2, built from the cells i-1 and i.
C11_InterfaceStates ==
    (pc = "states" /\ ng >= 4) =>
        \A c \in LoopCells, n \in Slots :
            /\ q_r[c][n] = RSub(qv[c][n], RMul(Half, dq[c][n]))
            /\ q_l[Upper(idir, c)][n] = RAdd(qv[c][n], RMul(Half, dq[c][n]))
            /\ Lower(idir, c) \in LoopCells =>
                   q_l[c][n] = RAdd(qv[Lower(idir, c)][n],
                                    RMul(Half, dq[Lower(idir, c)][n]))

\* a cell on the lowest ghost row of the loop with a nonzero slope, whose
\* two interface states differ from the cell value and from each other
C11_Witness ==
    /\ pc = "states" /\ ng >= 4 /\ idir = 2
    /\ \E c \in LoopCells, n \in Slots :
          /\ c[2] = jlo - 3
          /\ dq[c][n] # Zero
          /\ q_r[c][n] # qv[c][n]
          /\ q_l[Upper(idir, c)][n] # q_r[c][n]

---------------------------------------------------------------------------
(* Further properties of emf *)

\* got is the low-side slope for a positive flux, this cell's slope for a
\* negative flux and the mean of the two for a zero flux
ChosenBySign(flux, low, here, got) ==
    /\ RLt(Zero, flux) => got = low
    /\ RLt(flux, Zero) => got = here
    /\ flux = Zero => got = RDiv(RAdd(low, here), Two)

\* C12: at each corner (i,j) emf processes, each of the four transverse
\* slopes is chosen by the sign of the mass flux through the adjacent face:
\* positive takes the slope of the low-side cell (i-1 for an x-face, j-1 for
\* a y-face), negative the slope of cell (i,j), zero their average; the -1/4
\* slopes use the face flux at (i,j), the -3/4 slopes the face flux at
\* (i,j-1) for x-faces and (i-1,j) for y-faces.
C12_UpwindSelection ==
    pc = "emf" =>
        \A c \in (ilo - 2 .. ihi + 1) \X (jlo - 2 .. jhi + 1) :
            /\ ChosenBySign(Fx[c][idens], dEdy_14(West(c)), dEdy_14(c),
                            sel[c].dEdyx_14)
            /\ ChosenBySign(Fx[South(c)][idens], dEdy_34(West(c)), dEdy_34(c),
                            sel[c].dEdyx_34)
            /\ ChosenBySign(Fy[c][idens], dEdx_14(South(c)), dEdx_14(c),
                            sel[c].dEdxy_14)
            /\ ChosenBySign(Fy[West(c)][idens], dEdx_34(South(c)), dEdx_34(c),
                            sel[c].dEdxy_34)

\* a corner whose x-face flux is positive at (i,j) and negative at (i,j-1),
\* with different slopes on the two sides: the -1/4 slope comes from cell
\* i-1 and the -3/4 slope from cell i
C12_Witness ==
    /\ pc = "emf"
    /\ \E c \in EmfCornerCells :
          /\ RLt(Zero, Fx[c][idens]) /\ RLt(Fx[South(c)][idens], Zero)
          /\ dEdy_14(West(c)) # dEdy_14(c)
          /\ dEdy_34(West(c)) # dEdy_34(c)
          /\ sel[c].dEdyx_14 = dEdy_14(West(c))
          /\ sel[c].dEdyx_34 = dEdy_34(c)

\* a strict local extremum along the sweep axis: the backward and forward
\* differences have opposite signs
StrictExtremum(d, c, n) == RLt(RMul(BackwardDiff(d, c, n), ForwardDiff(d, c, n)), Zero)

\* x lies outside the range spanned by the cell and its two neighbours
OutsideRange(x, d, c, n) ==
    LET three == {qv[Lower(d, c)][n], qv[c][n], qv[Upper(d, c)][n]}
    IN  (\A y \in three : RLt(x, y)) \/ (\A y \in three : RLt(y, x))

\* C13: the limiter has no sign-agreement test: at a strict local extremum
\* whose two neighbours differ, the limited slope is nonzero and one of the
\* two reconstructed interface values lies outside the range spanned by
\* the cell and its neighbours; such extrema exist.
C13_ExtremumOvershoot ==
    (pc = "states" /\ ng >= 4) =>
        \A c \in LoopCells, n \in Slots \ {NormalFieldSlot(idir)} :
            (StrictExtremum(idir, c, n) /\ CenteredDiff(idir, c, n) # Zero) =>
                /\ dq[c][n] # Zero
                /\ \/ OutsideRange(q_r[c][n], idir, c, n)
                   \/ OutsideRange(q_l[Upper(idir, c)][n], idir, c, n)

\* a local maximum between unequal neighbours, given a nonzero slope, whose
\* interface state on the high side exceeds the maximum itself
C13_Witness ==
    /\ pc = "states" /\ ng >= 4
    /\ \E c \in LoopCells, n \in Slots :
          /\ RLt(Zero, BackwardDiff(idir, c, n))
          /\ RLt(ForwardDiff(idir, c, n), Zero)
          /\ dq[c][n] # Zero
          /\ \/ RLt(qv[c][n], q_r[c][n])
             \/ RLt(qv[c][n], q_l[Upper(idir, c)][n])

====
